---- MODULE Spec2Model ----
(***************************************************************************)
(* A model of the RAG service: rag_service/config.py (Settings),           *)
(* rag_service/ingest.py (DocumentIngestor), rag_service/query.py          *)
(* (RAGQueryEngine), rag_service/retrain.py (RetrainManager), the request  *)
(* handlers of rag_service/app.py, and scripts/retrain_flow.py.            *)
(*                                                                         *)
(* The Qdrant server, the embedding provider and the generation provider   *)
(* are external: the store is modelled by its collection (name, vector     *)
(* size) and its set of points; a provider call either answers or raises.  *)
(* Replicas of the service share one store and one configuration.  A       *)
(* handler of app.py is an `async def` that never awaits inside ingest()   *)
(* or query(), so one replica runs one handler at a time; the calls an     *)
(* ingest makes to the provider and to the store are separate steps,       *)
(* between which other replicas act.                                       *)
(***************************************************************************)
EXTENDS Integers, Sequences, FiniteSets, TLC

VARIABLES
    settings,      \* config.py: the Settings object, shared by the replicas
    installed,     \* optional packages importable by query.py (lines 14-25)
    collection,    \* Qdrant: the collection of the configured name
    points,        \* Qdrant: the points of that collection
    app,           \* per replica: how far app.py's module initialisation got
    ensured,       \* per replica: how _ensure_collection_exists ended
    task,          \* per replica: the ingest() call in progress, if any
    uuid_counter,  \* uuid.uuid4(): identifiers handed out so far
    returned,      \* the results of the ingest() calls that returned, in order
    last,          \* the most recent response sent to a caller
    flow           \* scripts/retrain_flow.py: the run of main()

vars == <<settings, installed, collection, points, app, ensured, task, uuid_counter,
         returned, last, flow>>

----------------------------------------------------------------------------
(* Bounds of the model *)

\* ingest() calls that reach uuid.uuid4()
MaxDocs == 2

\* largest top_k a caller asks for
MaxTopK == 2

Replicas == {"r1", "r2"}

----------------------------------------------------------------------------
(* Program constants *)

\* config.py: chunk_size, chunk_overlap
chunk_size == 1000
chunk_overlap == 200

\* ingest.py _ensure_collection_exists: vector sizes
OpenAIVectorSize == 1536
HFVectorSize == 384
DefaultVectorSize == 1536

\* query.py _estimate_tokens: tokens added for the prompt template
PromptOverhead == 100

\* Qdrant.add_texts(texts, metadatas) embeds and upserts `batch_size` texts
\* per call to the store; ingest() passes no batch_size, the default is 64
batch_size == 64

----------------------------------------------------------------------------
(* Values *)

None == "None"

Min(a, b) == IF a <= b THEN a ELSE b

\* str.lower() on the provider names the model configures
Lower(s) ==
    CASE s = "OpenAI" -> "openai"
      [] s = "HuggingFace" -> "huggingface"
      [] OTHER -> s

Ok(v) == [ok |-> TRUE, val |-> v]
Raise(type, msg) == [ok |-> FALSE, val |-> [type |-> type, msg |-> msg]]

----------------------------------------------------------------------------
(* config.py: Settings *)

EmbeddingProviderNames == {"openai", "huggingface", "HuggingFace", "cohere"}
LLMProviderNames == {"openai", "groq", "ollama", "palm"}
ApiKeys == {"", "key"}
VectorDBs == {"qdrant", "pinecone"}
OptionalPackages == {"langchain_groq", "ollama"}

\* OPENAI_MODEL: the default, and a name that tiktoken's table of models does
\* not list (a later model, or the name of a deployment)
OpenAIModels == {"gpt-4", "chat-deployment-1"}
\* EMBEDDING_MODEL: the default (1536 numbers a vector) and the large model
\* (3072 numbers a vector)
EmbeddingModels == {"text-embedding-3-small", "text-embedding-3-large"}

Settings ==
    [embedding_provider : EmbeddingProviderNames,
     embedding_model : EmbeddingModels,
     hf_embedding_model : {"all-MiniLM-L6-v2"},
     openai_api_key : ApiKeys,
     llm_provider : LLMProviderNames,
     groq_api_key : ApiKeys,
     vector_db : VectorDBs,
     openai_model : OpenAIModels,
     groq_model : {"llama-3.1-70b-versatile"},
     ollama_model : {"llama3.1"}]

\* query.py lines 14-25: the flags the guarded imports set
GROQ_AVAILABLE == "langchain_groq" \in installed
OLLAMA_AVAILABLE == "ollama" \in installed

----------------------------------------------------------------------------
(* Providers *)

\* the length of the vectors an embeddings object returns
EmbeddingDim(e) ==
    IF e.class = "OpenAIEmbeddings"
    THEN IF e.model = "text-embedding-3-large" THEN 2 * OpenAIVectorSize
         ELSE OpenAIVectorSize
    ELSE HFVectorSize

\* ingest.py DocumentIngestor._initialize_embeddings
initialize_embeddings(s) ==
    LET provider == Lower(s.embedding_provider) IN
    IF provider = "openai"
    THEN IF s.openai_api_key = ""
         THEN Raise("ValueError", "OpenAI API key required for OpenAI embeddings")
         ELSE Ok([class |-> "OpenAIEmbeddings", model |-> s.embedding_model])
    ELSE IF provider = "huggingface"
    THEN Ok([class |-> "HuggingFaceEmbeddings", model |-> s.hf_embedding_model])
    ELSE Raise("ValueError", "Unknown embedding provider")

\* query.py RAGQueryEngine._initialize_embeddings
engine_initialize_embeddings(s) ==
    LET provider == Lower(s.embedding_provider) IN
    IF provider = "openai"
    THEN IF s.openai_api_key = ""
         THEN Raise("ValueError", "OpenAI API key required for OpenAI embeddings")
         ELSE Ok([class |-> "OpenAIEmbeddings", model |-> s.embedding_model])
    ELSE IF provider = "huggingface"
    THEN Ok([class |-> "HuggingFaceEmbeddings", model |-> s.hf_embedding_model])
    ELSE Raise("ValueError", "Unknown embedding provider")

\* _initialize_llm without the check of groq_api_key
initialize_llm_no_credential(s) ==
    LET provider == Lower(s.llm_provider) IN
    IF provider = "openai"
    THEN IF s.openai_api_key = ""
         THEN Raise("ValueError", "OpenAI API key required")
         ELSE Ok([class |-> "ChatOpenAI", model |-> s.openai_model])
    ELSE IF provider = "groq"
    THEN IF ~GROQ_AVAILABLE
         THEN Raise("ValueError", "Groq not installed")
         ELSE Ok([class |-> "ChatGroq", model |-> s.groq_model])
    ELSE IF provider = "ollama"
    THEN IF ~OLLAMA_AVAILABLE
         THEN Raise("ValueError", "Ollama support not available")
         ELSE Ok([class |-> "Ollama", model |-> s.ollama_model])
    ELSE Raise("ValueError", "Unknown LLM provider")

\* query.py RAGQueryEngine._initialize_llm
initialize_llm(s) ==
    LET provider == Lower(s.llm_provider) IN
    IF provider = "openai"
    THEN IF s.openai_api_key = ""
         THEN Raise("ValueError", "OpenAI API key required")
         ELSE Ok([class |-> "ChatOpenAI", model |-> s.openai_model])
    ELSE IF provider = "groq"
    THEN IF ~GROQ_AVAILABLE
         THEN Raise("ValueError", "Groq not installed")
         ELSE IF s.groq_api_key = ""
         THEN Raise("ValueError", "Groq API key required")
         ELSE Ok([class |-> "ChatGroq", model |-> s.groq_model])
    ELSE IF provider = "ollama"
    THEN IF ~OLLAMA_AVAILABLE
         THEN Raise("ValueError", "Ollama support not available")
         ELSE Ok([class |-> "Ollama", model |-> s.ollama_model])
    ELSE Raise("ValueError", "Unknown LLM provider")

\* ingest.py _ensure_collection_exists lines 74-79: the size a new collection gets
vector_size(s) ==
    IF s.embedding_provider = "openai" THEN OpenAIVectorSize
    ELSE IF s.embedding_provider = "huggingface" THEN HFVectorSize
    ELSE DefaultVectorSize

----------------------------------------------------------------------------
(* The store *)

NoCollection == [exists |-> FALSE, size |-> 0]
Collection(n) == [exists |-> TRUE, size |-> n]

----------------------------------------------------------------------------
(* app.py lines 36-39: module initialisation of one replica *)

Idle == [busy |-> FALSE]
NoResponse == [op |-> "none"]
\* retrain_flow.py before main() is entered (exit_code -1: the process runs)
NotStarted ==
    [pc |-> "main", health |-> "none", sent |-> FALSE, result |-> "none", exit_code |-> -1]

\* DocumentIngestor.__init__ up to the Qdrant client (ingest.py lines 21-43)
ConstructIngestor(i) ==
    /\ app[i] = "down"
    /\ app' = [app EXCEPT ![i] =
                 IF ~initialize_embeddings(settings).ok THEN "failed"
                 ELSE IF settings.vector_db = "qdrant" THEN "ensure"
                 ELSE "engine"]
    /\ UNCHANGED <<flow, settings, installed, collection, points, ensured, task, uuid_counter,
                   returned, last>>

\* _ensure_collection_exists lines 68-72: get_collections() and the name test;
\* an unreachable store raises, and line 86 swallows it
EnsureList(i) ==
    /\ app[i] = "ensure"
    /\ \E reachable \in BOOLEAN :
         /\ app' = [app EXCEPT ![i] =
                      IF reachable /\ ~collection.exists THEN "create" ELSE "engine"]
         /\ ensured' = [ensured EXCEPT ![i] =
                          IF ~reachable THEN "error"
                          ELSE IF collection.exists THEN "exists" ELSE @]
    /\ UNCHANGED <<flow, settings, installed, collection, points, task, uuid_counter,
                   returned, last>>

\* _ensure_collection_exists without the handler of lines 86-87: an error of
\* create_collection() ends the construction
EnsureCreate_unhandled(i) ==
    /\ app[i] = "create"
    /\ \E reachable \in BOOLEAN :
         IF reachable /\ ~collection.exists
         THEN /\ collection' = Collection(vector_size(settings))
              /\ ensured' = [ensured EXCEPT ![i] = "created"]
              /\ app' = [app EXCEPT ![i] = "engine"]
         ELSE /\ ensured' = [ensured EXCEPT ![i] =
                               IF reachable THEN "conflict" ELSE "error"]
              /\ app' = [app EXCEPT ![i] = "failed"]
              /\ UNCHANGED collection
    /\ UNCHANGED <<flow, settings, installed, points, task, uuid_counter, returned, last>>

\* _ensure_collection_exists lines 73-87: create_collection(); the store
\* refuses a name that exists by now ("conflict"), and line 86 swallows every
\* error
EnsureCreate(i) ==
    /\ app[i] = "create"
    /\ \E reachable \in BOOLEAN :
         IF reachable /\ ~collection.exists
         THEN /\ collection' = Collection(vector_size(settings))
              /\ ensured' = [ensured EXCEPT ![i] = "created"]
         ELSE /\ ensured' = [ensured EXCEPT ![i] =
                               IF reachable THEN "conflict" ELSE "error"]
              /\ UNCHANGED collection
    /\ app' = [app EXCEPT ![i] = "engine"]
    /\ UNCHANGED <<flow, settings, installed, points, task, uuid_counter, returned, last>>

\* RAGQueryEngine.__init__ (query.py lines 33-57), then RetrainManager()
ConstructEngine(i) ==
    /\ app[i] = "engine"
    /\ app' = [app EXCEPT ![i] =
                 IF /\ engine_initialize_embeddings(settings).ok
                    /\ initialize_llm(settings).ok
                 THEN "up" ELSE "failed"]
    /\ UNCHANGED <<flow, settings, installed, collection, points, ensured, task, uuid_counter,
                   returned, last>>

----------------------------------------------------------------------------
(* Uploaded files *)

\* str.lower() on one character
LowerChar(c) ==
    CASE c = "P" -> "p"
      [] c = "D" -> "d"
      [] c = "F" -> "f"
      [] c = "T" -> "t"
      [] c = "X" -> "x"
      [] OTHER -> c

lower(str) == [k \in 1..Len(str) |-> LowerChar(str[k])]

\* str.endswith(suffix)
endswith(str, suffix) ==
    /\ Len(str) >= Len(suffix)
    /\ SubSeq(str, Len(str) - Len(suffix) + 1, Len(str)) = suffix

\* `sub in str`
contains(str, sub) ==
    \E k \in 1..(Len(str) - Len(sub) + 1) : SubSeq(str, k, k + Len(sub) - 1) = sub

\* the characters of the file names and media types the model uploads
Characters(name) ==
    CASE name = "a.txt" -> <<"a", ".", "t", "x", "t">>
      [] name = "b.md" -> <<"b", ".", "m", "d">>
      [] name = "c.pdf" -> <<"c", ".", "p", "d", "f">>
      [] name = "D.PDF" -> <<"D", ".", "P", "D", "F">>
      [] name = "e.bin" -> <<"e", ".", "b", "i", "n">>
      [] name = "text/plain" -> <<"t", "e", "x", "t", "/", "p", "l", "a", "i", "n">>
      [] name = "application/pdf" ->
           <<"a", "p", "p", "l", "i", "c", "a", "t", "i", "o", "n", "/", "p", "d", "f">>
      [] name = "application/octet-stream" ->
           <<"a", "p", "p", "l", "i", "c", "a", "t", "i", "o", "n", "/",
             "o", "c", "t", "e", "t", "-", "s", "t", "r", "e", "a", "m">>
      [] OTHER -> <<>>

Filenames == {"a.txt", "b.md", "c.pdf", "D.PDF", "e.bin"}
\* UploadFile.content_type is None when the part declares no type
ContentTypes == {"text/plain", "application/pdf", "application/octet-stream", None}

\* File bytes: `enc` says what the bytes are ("utf8": valid UTF-8 text,
\* "latin1": text that is not valid UTF-8, "pdf": a PDF file); the text they
\* hold is a body of `body` characters followed by `tail` whitespace
\* characters.  With line = 0 the body holds no whitespace at all; otherwise it
\* is lines of `line` characters each, one newline between two lines and no
\* other newline in it.
Utf8(body, tail) == [enc |-> "utf8", body |-> body, tail |-> tail, line |-> 0]
Latin1(body) == [enc |-> "latin1", body |-> body, tail |-> 0, line |-> 0]
Pdf(body) == [enc |-> "pdf", body |-> body, tail |-> 0, line |-> 0]
\* n lines of w characters
Utf8Lines(n, w) == [enc |-> "utf8", body |-> n * w + (n - 1), tail |-> 0, line |-> w]

ShortLen == 500
\* 3 chunks
MediumLen == 2400
\* 65 chunks, one more than a batch: chunk_size + 63 * 800 + 1
LongLen == 51401

Contents ==
    {Utf8(ShortLen, 0), Utf8(MediumLen, 0), Utf8(LongLen, 0), Utf8(0, 3), Utf8(0, 0),
     Latin1(ShortLen), Pdf(ShortLen), Pdf(0), Utf8Lines(7, 342)}

AllFiles == [filename : Filenames, content_type : ContentTypes, content : Contents]

File(n, t, c) == [filename |-> n, content_type |-> t, content |-> c]

----------------------------------------------------------------------------
(* ingest.py: text extraction and chunking *)

Text(body, tail, line) == [body |-> body, tail |-> tail, line |-> line]

\* bytes.decode('utf-8')
decode_utf8(content) ==
    IF content.enc = "utf8"
    THEN Ok(Text(content.body, content.tail, content.line))
    ELSE Raise("UnicodeDecodeError", "'utf-8' codec can't decode byte")

\* DocumentIngestor._extract_from_pdf: every page's text, a newline after each
extract_from_pdf(content) ==
    IF content.enc = "pdf"
    THEN Ok(Text(content.body, content.tail + 1, content.line))
    ELSE Raise("PdfReadError", "EOF marker not found")

\* DocumentIngestor._extract_text; the result also names the branch taken
extract_text(file) ==
    LET filename_lower == lower(Characters(file.filename))
        is_pdf_name == endswith(filename_lower, <<".", "p", "d", "f">>)
        is_text_name ==
            \/ endswith(filename_lower, <<".", "t", "x", "t">>)
            \/ endswith(filename_lower, <<".", "m", "d">>)
            \/ endswith(filename_lower, <<".", "m", "a", "r", "k", "d", "o", "w", "n">>)
            \/ endswith(filename_lower, <<".", "c", "s", "v">>)
    IN
    IF ~is_pdf_name /\ file.content_type = None
    THEN [branch |-> "none",
          result |-> Raise("TypeError", "argument of type 'NoneType' is not iterable")]
    ELSE IF is_pdf_name \/ contains(Characters(file.content_type), <<"p", "d", "f">>)
    THEN [branch |-> "pdf", result |-> extract_from_pdf(file.content)]
    ELSE IF is_text_name
    THEN [branch |-> "text", result |-> decode_utf8(file.content)]
    ELSE [branch |-> "fallback",
          result |-> IF decode_utf8(file.content).ok
                     THEN decode_utf8(file.content)
                     ELSE Raise("ValueError", "Unsupported file type")]

\* the test without strip(): `not text`
is_blank_no_strip(text) == text.body + text.tail = 0

\* `not text or len(text.strip()) == 0`
is_blank(text) == text.body + text.tail = 0 \/ text.body = 0

\* RecursiveCharacterTextSplitter(chunk_size, chunk_overlap).split_text.  A
\* chunk is the span [from, to) of the body it holds.
\*
\* A body without any separator is split into its characters, and the merge of
\* these emits a chunk each time chunk_size is reached and keeps the last
\* chunk_overlap characters for the next chunk:
chunk_count(text) ==
    IF text.body = 0 THEN 0
    ELSE IF text.body <= chunk_size THEN 1
    ELSE 1 + ((text.body - chunk_size) + (chunk_size - chunk_overlap) - 1)
                 \div (chunk_size - chunk_overlap)

\* A body of lines is split at the newlines, each newline kept at the front of
\* the split that follows it (keep_separator): the number of splits, the length
\* of split j and where it begins
splits(text) == (text.body + 1) \div (text.line + 1)
split_len(text, j) == IF j = 1 THEN text.line ELSE text.line + 1
split_from(text, j) == IF j = 1 THEN 0 ELSE (j - 1) * (text.line + 1) - 1

\* _join_docs: the splits first..final joined and stripped of the newline in
\* front
join_docs(text, first, final) ==
    [from |-> split_from(text, first) + (IF first = 1 THEN 0 ELSE 1),
     to |-> split_from(text, final) + split_len(text, final)]

\* _merge_splits, the inner loop: splits are dropped from the front of the
\* current chunk while it is longer than chunk_overlap, or too long to take the
\* next split of length `len`; the result is <<first split kept, total kept>>
RECURSIVE drop_front(_, _, _, _)
drop_front(text, first, total, len) ==
    IF total > chunk_overlap \/ (total + len > chunk_size /\ total > 0)
    THEN drop_front(text, first + 1, total - split_len(text, first), len)
    ELSE <<first, total>>

\* _merge_splits from split j on, the current chunk being the splits
\* first..j-1 of `total` characters, `docs` the chunks emitted so far (the
\* separator the splits are joined with is empty, the newlines being kept)
RECURSIVE merge_splits(_, _, _, _, _)
merge_splits(text, j, first, total, docs) ==
    IF j > splits(text)
    THEN IF first < j THEN Append(docs, join_docs(text, first, j - 1)) ELSE docs
    ELSE LET len == split_len(text, j) IN
         IF total + len > chunk_size /\ first < j
         THEN LET kept == drop_front(text, first, total, len)
              IN merge_splits(text, j + 1, kept[1], kept[2] + len,
                              Append(docs, join_docs(text, first, j - 1)))
         ELSE merge_splits(text, j + 1, first, total + len, docs)

\* split_text: the lines of the model's texts are shorter than chunk_size, so
\* no split is divided further
split_text(text) ==
    IF text.line = 0
    THEN [k \in 1..chunk_count(text) |->
            [from |-> (k - 1) * (chunk_size - chunk_overlap),
             to |-> Min(text.body, (k - 1) * (chunk_size - chunk_overlap) + chunk_size)]]
    ELSE merge_splits(text, 1, 1, 0, <<>>)

----------------------------------------------------------------------------
(* ingest.py DocumentIngestor.ingest and app.py ingest_document *)

\* the embeddings object both components hold after construction
Embeddings == initialize_embeddings(settings).val

\* one chunk as the point Qdrant.add_texts builds for it (payload: page_content
\* and the metadata of ingest.py lines 121-129)
Point(doc_id, source, chunks, k, dim) ==
    [doc_id |-> doc_id,
     source |-> source,
     chunk_index |-> k - 1,
     total_chunks |-> Len(chunks),
     page_content |-> chunks[k],
     dim |-> dim]

\* Qdrant.add_texts: the chunks of one batch, from chunk `sent + 1` on
Batch(chunks, sent) == (sent + 1)..Min(Len(chunks), sent + batch_size)

\* the store's answer to upsert(points) or search(vector): the error it raises,
\* if any
StoreError(reachable, dim) ==
    IF ~reachable THEN Raise("ResponseHandlingException", "connection refused")
    ELSE IF ~collection.exists
    THEN Raise("UnexpectedResponse", "404 collection not found")
    ELSE IF collection.size # dim
    THEN Raise("UnexpectedResponse", "400 vector dimension error")
    ELSE Ok(None)

\* app.py ingest_document lines 136-145: the response for ingest()'s outcome
IngestResponse(file, outcome) ==
    IF outcome.ok
    THEN [status_code |-> 200,
          body |-> [status |-> "success",
                    chunk_count |-> outcome.val.chunk_count,
                    vector_store_id |-> outcome.val.vector_store_id,
                    message |-> <<"Document ingested successfully", file.filename>>]]
    ELSE [status_code |-> 500,
          body |-> [detail |-> <<"Failed to ingest document: ", outcome.val.msg>>]]

\* what a response to an ingest request looks like in `last`; doc_id and
\* branch record what the call did (0: no identifier was generated)
IngestDone(file, branch, doc_id, outcome) ==
    [op |-> "ingest", request |-> file, branch |-> branch,
     doc_id |-> doc_id, outcome |-> outcome,
     response |-> IngestResponse(file, outcome)]

IngestResult(file, chunks, doc_id) ==
    Ok([chunk_count |-> Len(chunks), vector_store_id |-> doc_id,
        filename |-> file.filename])

\* ingest.py lines 106-129 (and lines 140-146 when no store is configured)
IngestBegin(i, file) ==
    /\ app[i] = "up"
    /\ ~task[i].busy
    /\ LET ext == extract_text(file) IN
       IF ~ext.result.ok
       THEN /\ last' = IngestDone(file, ext.branch, 0, ext.result)
            /\ UNCHANGED <<task, uuid_counter, returned>>
       ELSE IF is_blank(ext.result.val)
       THEN /\ last' = IngestDone(file, ext.branch, 0,
                          Raise("ValueError",
                                "No text could be extracted from the document"))
            /\ UNCHANGED <<task, uuid_counter, returned>>
       ELSE /\ uuid_counter < MaxDocs
            /\ uuid_counter' = uuid_counter + 1
            /\ IF settings.vector_db = "qdrant"
               THEN /\ task' = [task EXCEPT ![i] =
                                  [busy |-> TRUE, file |-> file, branch |-> ext.branch,
                                   text |-> ext.result.val,
                                   doc_id |-> uuid_counter + 1, sent |-> 0]]
                    /\ UNCHANGED <<returned, last>>
               ELSE /\ last' = IngestDone(file, ext.branch, uuid_counter + 1,
                                  IngestResult(file, split_text(ext.result.val),
                                               uuid_counter + 1))
                    /\ returned' = Append(returned,
                                      IngestResult(file, split_text(ext.result.val),
                                                   uuid_counter + 1).val)
                    /\ UNCHANGED task
    /\ UNCHANGED <<flow, settings, installed, collection, points, app, ensured>>

\* ingest.py line 138, one round of Qdrant.add_texts: embed the next batch,
\* upsert it; an exception ends ingest() (lines 148-150)
IngestBatch(i) ==
    /\ task[i].busy
    /\ LET t == task[i]
           dim == EmbeddingDim(Embeddings)
       IN
       \E fault \in {"none", "embedding", "store"}, chunks \in {split_text(task[i].text)} :
          LET err == IF fault = "embedding"
                     THEN Raise("ProviderError", "embedding request failed")
                     ELSE StoreError(fault # "store", dim)
              sent == Min(Len(chunks), t.sent + batch_size)
          IN
          IF ~err.ok
          THEN /\ last' = IngestDone(t.file, t.branch, t.doc_id, err)
               /\ task' = [task EXCEPT ![i] = Idle]
               /\ UNCHANGED <<points, returned>>
          ELSE /\ points' = points \cup
                    {Point(t.doc_id, t.file.filename, chunks, k, dim) :
                        k \in Batch(chunks, t.sent)}
               /\ IF sent = Len(chunks)
                  THEN /\ last' = IngestDone(t.file, t.branch, t.doc_id,
                                     IngestResult(t.file, chunks, t.doc_id))
                       /\ returned' = Append(returned,
                                         IngestResult(t.file, chunks, t.doc_id).val)
                       /\ task' = [task EXCEPT ![i] = Idle]
                  ELSE /\ task' = [task EXCEPT ![i].sent = sent]
                       /\ UNCHANGED <<returned, last>>
    /\ UNCHANGED <<flow, settings, installed, collection, app, ensured, uuid_counter>>

----------------------------------------------------------------------------
(* query.py RAGQueryEngine.query and app.py query_rag *)

Queries == {"how do I reset my password?", "what is the refund policy?"}
\* what the generation provider may answer
Answers == {"an answer", "I don't know"}

\* Similarity is the provider's and the store's business; the model ranks the
\* points by a distance that depends on the query and is different for every
\* point of the collection.
Position(p) == p.doc_id * 1000 + p.chunk_index
Distance(q, p) ==
    IF q = "how do I reset my password?" THEN Position(p)
    ELSE (MaxDocs + 2) * 1000 - Position(p)

RECURSIVE Smallest(_, _)
Smallest(D, k) ==
    IF k <= 0 \/ D = {} THEN <<>>
    ELSE LET m == CHOOSE x \in D : \A y \in D : x <= y
         IN <<m>> \o Smallest(D \ {m}, k - 1)

\* the store's search(query vector, limit = k): the k nearest points, fewer
\* when the collection holds fewer
search(pts, q, k) ==
    LET ds == CHOOSE s \in {Smallest({Distance(q, p) : p \in pts}, k)} : TRUE
    IN [j \in 1..Len(ds) |-> CHOOSE p \in pts : Distance(q, p) = ds[j]]

\* a retriever built with the configured default top_k (config.py line 47)
\* instead of the request's
retrieve_default_k(q, top_k) == search(points, q, 5)

\* query.py lines 163-165: the retriever, asked for the request's top_k nearest
\* points of the collection
retrieve(q, top_k) == search(points, q, top_k)

\* a chain that answers without the generation provider when nothing was
\* retrieved
retrieval_qa_short_circuit(docs, q, generated) ==
    LET context == [j \in 1..Len(docs) |-> docs[j].page_content]
        calls == <<[context |-> context, question |-> q, output |-> generated]>>
    IN IF docs = <<>>
       THEN [ok |-> TRUE, val |-> [result |-> "I don't know", source_documents |-> docs],
             retrieved |-> 0, llm_calls |-> <<>>]
       ELSE IF generated = "llm_error"
       THEN [ok |-> FALSE, val |-> [type |-> "ProviderError",
                                     msg |-> "generation request failed"],
             retrieved |-> Len(docs), llm_calls |-> calls]
       ELSE [ok |-> TRUE, val |-> [result |-> generated, source_documents |-> docs],
             retrieved |-> Len(docs), llm_calls |-> calls]

\* RetrievalQA "stuff" chain (query.py lines 168-177): the retrieved documents
\* are put into the prompt and the generation provider is called once, whatever
\* the number of documents.  `generated` is the provider's answer, or
\* "llm_error" when its call raises.  `retrieved` and `llm_calls` record what
\* the chain did.
retrieval_qa(docs, q, generated) ==
    LET context == [j \in 1..Len(docs) |-> docs[j].page_content]
        calls == <<[context |-> context, question |-> q, output |-> generated]>>
    IN IF generated = "llm_error"
       THEN [ok |-> FALSE, val |-> [type |-> "ProviderError",
                                     msg |-> "generation request failed"],
             retrieved |-> Len(docs), llm_calls |-> calls]
       ELSE [ok |-> TRUE, val |-> [result |-> generated, source_documents |-> docs],
             retrieved |-> Len(docs), llm_calls |-> calls]

\* the number of characters of the questions and answers of the model
CharCount(str) ==
    CASE str = "how do I reset my password?" -> 27
      [] str = "what is the refund policy?" -> 26
      [] str = "an answer" -> 9
      [] str = "I don't know" -> 12
      [] OTHER -> 0

\* tiktoken.encoding_for_model: the encoding of a model it lists, KeyError for
\* any other name
encoding_for_model(model) ==
    IF model = "gpt-4" THEN Ok("cl100k_base")
    ELSE Raise("KeyError", "Could not automatically map model to a tokeniser")

\* len(encoding.encode(text)) for a text of `chars` characters: the encodings
\* of the model give one token for every four characters, and one for the rest
encode_len(encoding, chars) == (chars + 3) \div 4

\* sum(len(encoding.encode(c)) for c in context)
RECURSIVE context_tokens(_, _)
context_tokens(encoding, context) ==
    IF context = <<>> THEN 0
    ELSE encode_len(encoding, Head(context).to - Head(context).from)
            + context_tokens(encoding, Tail(context))

\* query.py RAGQueryEngine._estimate_tokens
estimate_tokens(q, response, context) ==
    LET encoding == encoding_for_model(settings.openai_model) IN
    IF ~encoding.ok THEN 0
    ELSE encode_len(encoding.val, CharCount(q))
            + encode_len(encoding.val, CharCount(response))
            + context_tokens(encoding.val, context)
            + PromptOverhead

\* query.py lines 159-196: query() up to its return value or exception.
\* `fault` names the external call that raises ("embedding", "store", "limit":
\* the store refusing a limit below 1, "llm"), or is the answer the generation
\* provider gives when no call raises.
query(q, top_k, fault) ==
    IF settings.vector_db # "qdrant"
    THEN [ok |-> FALSE, val |-> [type |-> "AttributeError",
                                  msg |-> "no attribute 'vector_store'"],
          retrieved |-> -1, llm_calls |-> <<>>]
    ELSE IF fault = "embedding"
    THEN [ok |-> FALSE, val |-> [type |-> "ProviderError",
                                  msg |-> "embedding request failed"],
          retrieved |-> -1, llm_calls |-> <<>>]
    ELSE IF ~StoreError(fault # "store", EmbeddingDim(Embeddings)).ok
    THEN [ok |-> FALSE, val |-> StoreError(fault # "store", EmbeddingDim(Embeddings)).val,
          retrieved |-> -1, llm_calls |-> <<>>]
    ELSE IF top_k < 1 /\ fault = "limit"
    THEN [ok |-> FALSE, val |-> [type |-> "UnexpectedResponse",
                                  msg |-> "422 limit must be 1 or larger"],
          retrieved |-> -1, llm_calls |-> <<>>]
    ELSE LET qa == CHOOSE r \in {retrieval_qa(retrieve(q, top_k), q,
                                   IF fault \in Answers THEN fault ELSE "llm_error")} : TRUE
         IN IF ~qa.ok
            THEN [ok |-> FALSE, val |-> qa.val,
                  retrieved |-> qa.retrieved, llm_calls |-> qa.llm_calls]
            ELSE LET context == [j \in 1..Len(qa.val.source_documents) |->
                                    qa.val.source_documents[j].page_content]
                 IN [ok |-> TRUE,
                     val |-> [response |-> qa.val.result,
                              context |-> context,
                              model |-> settings.openai_model,
                              tokens_used |-> estimate_tokens(q, qa.val.result, context)],
                     retrieved |-> qa.retrieved, llm_calls |-> qa.llm_calls]

\* app.py query_rag lines 166-175: the response for query()'s outcome
QueryResponse(outcome) ==
    IF outcome.ok
    THEN [status_code |-> 200,
          body |-> [response |-> outcome.val.response,
                    context |-> outcome.val.context,
                    model |-> outcome.val.model,
                    tokens_used |-> outcome.val.tokens_used]]
    ELSE [status_code |-> 500,
          body |-> [detail |-> <<"Failed to process query: ", outcome.val.msg>>]]

Faults == {"embedding", "store", "limit", "llm"}

\* one query request, from query_rag's entry to its response
Query(i, q, top_k) ==
    /\ app[i] = "up"
    /\ ~task[i].busy
    /\ \E fault \in Faults \cup Answers :
         /\ (fault = "limit") => (top_k < 1)
         /\ \E outcome \in {query(q, top_k, fault)} :
              last' = [op |-> "query",
                       request |-> [query |-> q, top_k |-> top_k],
                       outcome |-> [ok |-> outcome.ok, val |-> outcome.val],
                       retrieved |-> outcome.retrieved,
                       llm_calls |-> outcome.llm_calls,
                       response |-> QueryResponse(outcome)]
    /\ UNCHANGED <<flow, settings, installed, collection, points, app, ensured, task,
                   uuid_counter, returned>>

----------------------------------------------------------------------------
(* retrain.py RetrainManager and app.py retrain_model, health_check *)

\* RetrainManager._collect_training_data: the mock of the code, no sample
collect_training_data(min_samples) == <<>>

\* RetrainManager._format_for_finetuning
format_for_finetuning(training_data) ==
    [j \in 1..Len(training_data) |->
        [messages |-> <<[role |-> "system"],
                        [role |-> "user", content |-> training_data[j].query],
                        [role |-> "assistant", content |-> training_data[j].response]>>]]

\* retrain() reporting the threshold as the number of samples collected
retrain_reports_threshold(feedback_threshold) ==
    LET training_data == collect_training_data(feedback_threshold) IN
    IF Len(training_data) < feedback_threshold
    THEN [result |-> [status |-> "skipped",
                      reason |-> "insufficient_data",
                      samples_collected |-> feedback_threshold,
                      threshold |-> feedback_threshold],
          collected |-> Len(training_data), formatted |-> FALSE, dataset |-> <<>>,
          job |-> FALSE]
    ELSE [result |-> [status |-> "initiated",
                      samples_used |-> Len(training_data),
                      message |-> "Retraining job created successfully"],
          collected |-> Len(training_data),
          formatted |-> TRUE, dataset |-> format_for_finetuning(training_data),
          job |-> FALSE]

\* RetrainManager.retrain (retrain.py lines 33-75) for an integer threshold: its
\* result, and what it did on the way (the samples it collected, whether it
\* formatted a dataset, whether it created a fine-tuning job: line 59 is a
\* comment, it never does)
retrain(feedback_threshold) ==
    LET training_data == collect_training_data(feedback_threshold) IN
    IF Len(training_data) < feedback_threshold
    THEN [result |-> [status |-> "skipped",
                      reason |-> "insufficient_data",
                      samples_collected |-> Len(training_data),
                      threshold |-> feedback_threshold],
          collected |-> Len(training_data), formatted |-> FALSE, dataset |-> <<>>,
          job |-> FALSE]
    ELSE [result |-> [status |-> "initiated",
                      samples_used |-> Len(training_data),
                      message |-> "Retraining job created successfully"],
          collected |-> Len(training_data),
          formatted |-> TRUE, dataset |-> format_for_finetuning(training_data),
          job |-> FALSE]

\* app.py retrain_model lines 187-198: what `last` holds after the request
RetrainDone(feedback_threshold) ==
    LET r == retrain(feedback_threshold) IN
    [op |-> "retrain",
     request |-> [feedback_threshold |-> feedback_threshold],
     collected |-> r.collected, formatted |-> r.formatted, job |-> r.job,
     response |-> [status_code |-> 200,
                   body |-> [status |-> "success",
                             message |-> "Model retraining initiated",
                             details |-> r.result]]]

\* POST /rag/retrain by a caller of the API
Retrain(i, feedback_threshold) ==
    /\ app[i] = "up"
    /\ ~task[i].busy
    /\ last' = RetrainDone(feedback_threshold)
    /\ UNCHANGED <<flow, settings, installed, collection, points, app, ensured, task,
                   uuid_counter, returned>>

\* query.py check_vector_db_health: get_collections() on the Qdrant client
check_vector_db_health(reachable) ==
    IF settings.vector_db = "qdrant" THEN reachable ELSE TRUE

\* app.py health_check
health_check(reachable) ==
    [status_code |-> 200,
     body |-> [status |-> IF check_vector_db_health(reachable) THEN "healthy"
                          ELSE "degraded",
               vector_db |-> settings.vector_db]]

----------------------------------------------------------------------------
(* scripts/retrain_flow.py *)

\* check_rag_health (lines 24-31), on the response of GET /health
check_rag_health(response) == response.status_code = 200

\* main() lines 65-70: the health check.  The request is answered by a replica
\* that is up, or not at all (requests raises, line 29).
FlowCheckHealth ==
    /\ flow.pc = "main"
    /\ \/ flow' = [flow EXCEPT !.pc = "exited", !.health = "unreachable",
                                !.exit_code = 1]
       \/ \E i \in Replicas, reachable \in BOOLEAN :
            /\ app[i] = "up"
            /\ LET response == health_check(reachable) IN
               flow' = IF check_rag_health(response)
                       THEN [flow EXCEPT !.pc = "trigger",
                                         !.health = response.body.status]
                       ELSE [flow EXCEPT !.pc = "exited",
                                         !.health = response.body.status,
                                         !.exit_code = 1]
    /\ UNCHANGED <<settings, installed, collection, points, app, ensured, task,
                   uuid_counter, returned, last>>

\* main() lines 72-84 with trigger_retraining (lines 33-56): the POST of the
\* threshold, answered by a replica or not at all
FlowTriggerRetraining(feedback_threshold) ==
    /\ flow.pc = "trigger"
    /\ \/ /\ flow' = [flow EXCEPT !.pc = "exited", !.result = "error", !.exit_code = 1]
          /\ UNCHANGED last
       \/ \E i \in Replicas :
            /\ app[i] = "up"
            /\ ~task[i].busy
            /\ last' = RetrainDone(feedback_threshold)
            /\ flow' = [flow EXCEPT
                          !.pc = "exited",
                          !.sent = TRUE,
                          !.result = last'.response.body.details.status,
                          !.exit_code = IF last'.response.status_code = 200 THEN 0 ELSE 1]
    /\ UNCHANGED <<settings, installed, collection, points, app, ensured, task,
                   uuid_counter, returned>>

\* the next run of the script (it is run periodically)
FlowRunAgain ==
    /\ flow.pc = "exited"
    /\ flow' = NotStarted
    /\ UNCHANGED <<settings, installed, collection, points, app, ensured, task,
                   uuid_counter, returned, last>>

----------------------------------------------------------------------------
(* The specification: replicas of the service under the default providers,  *)
(* with every kind of upload and query                                      *)

\* the files the replicas are sent
Files ==
    {File("a.txt", "text/plain", Utf8(ShortLen, 0)),
     File("a.txt", "text/plain", Utf8(MediumLen, 0)),
     File("a.txt", "application/pdf", Utf8(ShortLen, 0)),
     File("e.bin", "application/octet-stream", Latin1(ShortLen)),
     File("b.md", "text/plain", Utf8(0, 3))}

\* the configurations the replicas are deployed with: the credentials set, the
\* default generation provider and model, either store
MainSettings ==
    {c \in Settings : /\ c.openai_api_key = "key" /\ c.groq_api_key = "key"
                      /\ c.llm_provider = "openai"
                      /\ c.embedding_provider \in {"openai", "HuggingFace", "cohere"}
                      /\ c.embedding_model = "text-embedding-3-small"
                      /\ c.openai_model = "gpt-4"}

Init ==
    /\ settings \in MainSettings
    /\ installed = OptionalPackages
    /\ collection = NoCollection
    /\ points = {}
    /\ app = [i \in Replicas |-> "down"]
    /\ ensured = [i \in Replicas |-> "no"]
    /\ task = [i \in Replicas |-> Idle]
    /\ uuid_counter = 0
    /\ returned = <<>>
    /\ last = NoResponse
    /\ flow = NotStarted

Next ==
    \/ \E i \in Replicas : ConstructIngestor(i)
    \/ \E i \in Replicas : EnsureList(i)
    \/ \E i \in Replicas : EnsureCreate(i)
    \/ \E i \in Replicas : ConstructEngine(i)
    \/ \E i \in Replicas, f \in Files : IngestBegin(i, f)
    \/ \E i \in Replicas : IngestBatch(i)
    \/ \E i \in Replicas, q \in Queries, k \in 0..MaxTopK : Query(i, q, k)

Spec == Init /\ [][Next]_vars

----------------------------------------------------------------------------
(* The same replicas, also sent a document of more chunks than one batch *)

BatchFiles == Files \cup {File("a.txt", "text/plain", Utf8(LongLen, 0))}

BatchNext ==
    \/ \E i \in Replicas : ConstructIngestor(i)
    \/ \E i \in Replicas : EnsureList(i)
    \/ \E i \in Replicas : EnsureCreate(i)
    \/ \E i \in Replicas : ConstructEngine(i)
    \/ \E i \in Replicas, f \in BatchFiles : IngestBegin(i, f)
    \/ \E i \in Replicas : IngestBatch(i)
    \/ \E i \in Replicas, q \in Queries, k \in 0..MaxTopK : Query(i, q, k)

SpecBatch == Init /\ [][BatchNext]_vars

----------------------------------------------------------------------------
(* Start-up: every configuration, against a store that may already hold the *)
(* collection, with one upload and one query                                *)

StartupFiles == {File("a.txt", "text/plain", Utf8(ShortLen, 0))}
StartupQueries == {"what is the refund policy?"}

\* every configuration of the providers and the store, with the default
\* OPENAI_MODEL
StartupSettings == {c \in Settings : c.openai_model = "gpt-4"}

StartupInit ==
    /\ settings \in StartupSettings
    /\ installed \in SUBSET OptionalPackages
    /\ collection \in {NoCollection, Collection(OpenAIVectorSize), Collection(HFVectorSize)}
    /\ points = {}
    /\ app = [i \in Replicas |-> "down"]
    /\ ensured = [i \in Replicas |-> "no"]
    /\ task = [i \in Replicas |-> Idle]
    /\ uuid_counter = 0
    /\ returned = <<>>
    /\ last = NoResponse
    /\ flow = NotStarted

StartupNext ==
    \/ \E i \in Replicas : ConstructIngestor(i)
    \/ \E i \in Replicas : EnsureList(i)
    \/ \E i \in Replicas : EnsureCreate(i)
    \/ \E i \in Replicas : ConstructEngine(i)
    \/ \E i \in Replicas, f \in StartupFiles : IngestBegin(i, f)
    \/ \E i \in Replicas : IngestBatch(i)
    \/ \E i \in Replicas, q \in StartupQueries : Query(i, q, 1)

SpecStartup == StartupInit /\ [][StartupNext]_vars

----------------------------------------------------------------------------
(* Text extraction alone, on every upload *)

\* one call of DocumentIngestor._extract_text
Extract(file) ==
    /\ last' = [op |-> "extract", request |-> file,
                branch |-> extract_text(file).branch,
                outcome |-> extract_text(file).result]
    /\ UNCHANGED <<flow, settings, installed, collection, points, app, ensured, task,
                   uuid_counter, returned>>

ExtractInit ==
    /\ settings \in {c \in MainSettings : /\ c.embedding_provider = "openai"
                                          /\ c.vector_db = "qdrant"}
    /\ installed = OptionalPackages
    /\ collection = NoCollection
    /\ points = {}
    /\ app = [i \in Replicas |-> "down"]
    /\ ensured = [i \in Replicas |-> "no"]
    /\ task = [i \in Replicas |-> Idle]
    /\ uuid_counter = 0
    /\ returned = <<>>
    /\ last = NoResponse
    /\ flow = NotStarted

ExtractNext == \E f \in AllFiles : Extract(f)

SpecExtract == ExtractInit /\ [][ExtractNext]_vars

----------------------------------------------------------------------------
(* Token accounting: the default providers and store, with a generation     *)
(* model that tiktoken lists and one that it does not                       *)

TokenSettings ==
    {c \in Settings : /\ c.openai_api_key = "key" /\ c.groq_api_key = "key"
                      /\ c.llm_provider = "openai"
                      /\ c.embedding_provider = "openai"
                      /\ c.embedding_model = "text-embedding-3-small"
                      /\ c.vector_db = "qdrant"}

TokenInit ==
    /\ settings \in TokenSettings
    /\ installed = OptionalPackages
    /\ collection = NoCollection
    /\ points = {}
    /\ app = [i \in Replicas |-> "down"]
    /\ ensured = [i \in Replicas |-> "no"]
    /\ task = [i \in Replicas |-> Idle]
    /\ uuid_counter = 0
    /\ returned = <<>>
    /\ last = NoResponse
    /\ flow = NotStarted

TokenNext ==
    \/ \E i \in Replicas : ConstructIngestor(i)
    \/ \E i \in Replicas : EnsureList(i)
    \/ \E i \in Replicas : EnsureCreate(i)
    \/ \E i \in Replicas : ConstructEngine(i)
    \/ \E i \in Replicas, f \in StartupFiles : IngestBegin(i, f)
    \/ \E i \in Replicas : IngestBatch(i)
    \/ \E i \in Replicas, q \in Queries, k \in 0..MaxTopK : Query(i, q, k)

SpecTokens == TokenInit /\ [][TokenNext]_vars

----------------------------------------------------------------------------
(* Chunking alone, on texts with and without separators *)

\* the texts are TextSpan + 1 lengths up to MediumLen without a separator
TextSpan == 120

\* texts without whitespace around the sizes of one, two and three chunks, and
\* texts of 2400 characters in lines: 7 lines of 342 characters, 49 of 48
ChunkTexts ==
    {Text(n, 0, 0) : n \in (MediumLen - TextSpan)..MediumLen}
        \cup {Text(1, 0, 0), Text(chunk_size, 0, 0), Text(chunk_size + 1, 0, 0)}
        \cup {decode_utf8(c).val :
                 c \in {Utf8Lines(7, 342), Utf8Lines(49, 48)}}

\* text_splitter.split_text(text), called twice on the same text
Split(text) ==
    /\ last' = [op |-> "split", request |-> text,
                chunks |-> split_text(text), again |-> split_text(text)]
    /\ UNCHANGED <<flow, settings, installed, collection, points, app, ensured, task,
                   uuid_counter, returned>>

ChunkNext == \E text \in ChunkTexts : Split(text)

SpecChunk == ExtractInit /\ [][ChunkNext]_vars

----------------------------------------------------------------------------
(* Retraining: the replicas, the callers of /rag/retrain and the script *)

\* largest feedback threshold a caller or the script asks for (the default of
\* both is 10)
MaxThreshold == 10

RetrainSettings == {c \in MainSettings : c.embedding_provider = "openai"}

RetrainInit ==
    /\ settings \in RetrainSettings
    /\ installed = OptionalPackages
    /\ collection = NoCollection
    /\ points = {}
    /\ app = [i \in Replicas |-> "down"]
    /\ ensured = [i \in Replicas |-> "no"]
    /\ task = [i \in Replicas |-> Idle]
    /\ uuid_counter = 0
    /\ returned = <<>>
    /\ last = NoResponse
    /\ flow = NotStarted

RetrainNext ==
    \/ \E i \in Replicas : ConstructIngestor(i)
    \/ \E i \in Replicas : EnsureList(i)
    \/ \E i \in Replicas : EnsureCreate(i)
    \/ \E i \in Replicas : ConstructEngine(i)
    \/ \E i \in Replicas, t \in 0..MaxThreshold : Retrain(i, t)
    \/ FlowCheckHealth
    \/ \E t \in 0..MaxThreshold : FlowTriggerRetraining(t)
    \/ FlowRunAgain

SpecRetrain == RetrainInit /\ [][RetrainNext]_vars

----------------------------------------------------------------------------
(* Properties *)

RecordsOf(doc_id) == {p \in points : p.doc_id = doc_id}

\* C1: every document identifier in the collection has all of its
\* total_chunks records present, in every reachable state (checked under
\* SpecBatch, where a document has more chunks than one batch)
IngestIsAtomic ==
    \A p \in points : Cardinality(RecordsOf(p.doc_id)) = p.total_chunks

\* C2: an ingest that failed left no record of its own in the collection
FailedIngestLeavesIndexUnchanged ==
    (last.op = "ingest" /\ ~last.outcome.ok) => RecordsOf(last.doc_id) = {}

\* C3: after a successful ingest the collection holds chunk_count records of the
\* returned vector_store_id, with chunk_index 0..chunk_count-1 once each and
\* total_chunks = chunk_count
SuccessfulIngestWritesAllChunks ==
    (last.op = "ingest" /\ last.outcome.ok) =>
        LET body == last.response.body
            recs == RecordsOf(body.vector_store_id)
        IN /\ Cardinality(recs) = body.chunk_count
           /\ {p.chunk_index : p \in recs} = 0..(body.chunk_count - 1)
           /\ \A p \in recs : p.total_chunks = body.chunk_count

\* C4: two ingests of the same file that both returned have distinct document
\* identifiers, disjoint record sets, and together twice the chunk count of
\* records
ReingestDoublesRecords ==
    \A a, b \in 1..Len(returned) :
        (a < b /\ returned[a].filename = returned[b].filename
               /\ returned[a].chunk_count = returned[b].chunk_count) =>
            /\ returned[a].vector_store_id # returned[b].vector_store_id
            /\ RecordsOf(returned[a].vector_store_id)
                   \cap RecordsOf(returned[b].vector_store_id) = {}
            /\ Cardinality(RecordsOf(returned[a].vector_store_id)
                               \cup RecordsOf(returned[b].vector_store_id))
                   = 2 * returned[a].chunk_count

\* C5: ensuring the collection is a no-op only when the existing collection has
\* the dimensionality of the active embedding provider (otherwise construction
\* fails), and no record of another dimensionality is in the collection
EnsureFailsOnDimensionMismatch ==
    /\ \A i \in Replicas :
          ensured[i] = "exists" => collection.size = EmbeddingDim(Embeddings)
    /\ \A p \in points : p.dim = collection.size

\* what the configuration must say for the providers to be usable
EmbeddingConfigValid ==
    \/ Lower(settings.embedding_provider) = "huggingface"
    \/ Lower(settings.embedding_provider) = "openai" /\ settings.openai_api_key # ""
GenerationConfigValid ==
    \/ Lower(settings.llm_provider) = "ollama"
    \/ Lower(settings.llm_provider) = "openai" /\ settings.openai_api_key # ""
    \/ Lower(settings.llm_provider) = "groq" /\ settings.groq_api_key # ""

\* C6: with an unrecognized provider name or a missing credential no replica
\* comes up and no request is served; with an invalid embedding configuration
\* construction stops in its first step
InvalidProviderConfigNeverServes ==
    /\ ~(EmbeddingConfigValid /\ GenerationConfigValid) =>
          /\ \A i \in Replicas : app[i] # "up" /\ ~task[i].busy
          /\ last = NoResponse
    /\ ~EmbeddingConfigValid =>
          \A i \in Replicas : app[i] \in {"down", "failed"} /\ ensured[i] = "no"

\* C6 witness: a generation provider without its credential, and a replica
\* whose construction failed after the ingestor was built
InvalidConfigConstructionFailed ==
    /\ EmbeddingConfigValid /\ ~GenerationConfigValid
    /\ settings.llm_provider = "groq"
    /\ app["r1"] = "failed"
    /\ ensured["r1"] # "no"

\* C7: a failed request is answered by a structured failure with an error kind,
\* and the text of the underlying exception is not in it
FailuresAreStructured ==
    (last.op \in {"ingest", "query"} /\ ~last.outcome.ok) =>
        /\ "kind" \in DOMAIN last.response.body
        /\ \A f \in DOMAIN last.response.body :
              last.outcome.val.msg \notin
                  {last.response.body[f][k] : k \in DOMAIN last.response.body[f]}

\* C8: a query that returns gives a context of min(top_k, n) entries, n the
\* number of records of the collection, each the text of one of those records
ContextIsTopK ==
    [][(last' # last /\ last'.op = "query" /\ last'.outcome.ok) =>
          LET context == last'.response.body.context IN
          /\ Len(context) = Min(last'.request.top_k, Cardinality(points))
          /\ \A j \in 1..Len(context) : \E p \in points : p.page_content = context[j]
      ]_vars

\* C8 witness: a query for 2 entries answered with the single record held, and
\* before it (in `returned`) the ingest that wrote it
ContextShorterThanTopK ==
    /\ last.op = "query" /\ last.outcome.ok
    /\ last.request.top_k = 2
    /\ Len(last.response.body.context) = 1
    /\ Cardinality(points) = 1

\* C9: a query whose retrieval returned no record still called the generation
\* provider exactly once, with an empty context, and returns that answer with
\* an empty context
EmptyRetrievalStillGenerates ==
    (last.op = "query" /\ last.retrieved = 0) =>
        /\ Len(last.llm_calls) = 1
        /\ last.llm_calls[1].context = <<>>
        /\ last.outcome.ok =>
              /\ last.response.body.response = last.llm_calls[1].output
              /\ last.response.body.context = <<>>

\* C9 witness: a query with top_k = 2 answered over the empty collection
EmptyCollectionAnswered ==
    /\ last.op = "query" /\ last.outcome.ok /\ last.retrieved = 0
    /\ last.request.top_k = 2
    /\ collection.exists /\ points = {}

TextSuffixes ==
    {<<".", "t", "x", "t">>, <<".", "m", "d">>,
     <<".", "m", "a", "r", "k", "d", "o", "w", "n">>, <<".", "c", "s", "v">>}
HasTextSuffix(file) ==
    \E x \in TextSuffixes : endswith(lower(Characters(file.filename)), x)
HasPdfSuffix(file) ==
    endswith(lower(Characters(file.filename)), <<".", "p", "d", "f">>)

\* C10: a file named .txt, .md, .markdown or .csv is decoded as UTF-8 whatever
\* its declared media type, and the PDF extractor is chosen by media type only
\* for a file without a recognized suffix
SuffixDispatchFirst ==
    last.op = "extract" =>
        /\ (HasTextSuffix(last.request) /\ last.request.content_type # None) =>
              last.branch = "text"
        /\ last.branch = "pdf" =>
              HasPdfSuffix(last.request) \/ ~HasTextSuffix(last.request)

\* the error the extractor raises for a format it does not support
\* (ingest.py line 170)
IsUnsupportedFormat(err) == err.type = "ValueError" /\ err.msg = "Unsupported file type"

\* C11: whenever the extractor tries to decode bytes that are not valid UTF-8,
\* for a file with a text suffix as for a file of no recognized format, it
\* fails with the unsupported-format error
DecodeFailureIsUnsupportedFormat ==
    (/\ last.op = "extract"
     /\ last.branch \in {"text", "fallback"}
     /\ last.request.content.enc = "latin1") =>
        ~last.outcome.ok /\ IsUnsupportedFormat(last.outcome.val)

\* the error ingest() raises for a text without content (ingest.py line 111)
IsEmptyDocument(err) ==
    err.type = "ValueError" /\ err.msg = "No text could be extracted from the document"

\* the upload's text was extracted and holds nothing but whitespace
ExtractsToBlank(file) ==
    extract_text(file).result.ok /\ extract_text(file).result.val.body = 0

\* C12: an ingest whose extracted text is empty or only whitespace fails with
\* the empty-document error, generates no document identifier and writes no
\* record; an ingest that succeeds reports at least one chunk
EmptyTextFailsBeforeChunking ==
    /\ [](/\ (last.op = "ingest" /\ ExtractsToBlank(last.request)) =>
                /\ ~last.outcome.ok
                /\ IsEmptyDocument(last.outcome.val)
                /\ last.doc_id = 0
          /\ (last.op = "ingest" /\ last.outcome.ok) => last.response.body.chunk_count >= 1
          /\ \A j \in 1..Len(returned) : returned[j].chunk_count >= 1)
    /\ [][(last' # last /\ last'.op = "ingest" /\ ExtractsToBlank(last'.request)) =>
             (points' = points /\ uuid_counter' = uuid_counter /\ task' = task)]_vars

\* C12 witness: a whitespace-only Markdown file refused while the collection
\* holds records
WhitespaceOnlyFileRefused ==
    /\ last.op = "ingest"
    /\ last.request = File("b.md", "text/plain", Utf8(0, 3))
    /\ ~last.outcome.ok /\ IsEmptyDocument(last.outcome.val)
    /\ points # {}

\* the tokens of a question or an answer, and of the chunks of a context, as
\* the tokenizer of the service counts them
Tokens(str) == encode_len("cl100k_base", CharCount(str))
ContextTokens(context) == context_tokens("cl100k_base", context)

\* C13: every query that returns reports tokens_used = tokens(query) +
\* tokens(answer) + the tokens of every context chunk + the overhead of 100
TokensUsedIsSum ==
    (last.op = "query" /\ last.outcome.ok) =>
        last.response.body.tokens_used =
            Tokens(last.request.query) + Tokens(last.response.body.response)
                + ContextTokens(last.response.body.context) + PromptOverhead

\* C14: a query that returns under a generation model without a tokenizer of
\* its own reports a positive estimate of its tokens (question and answer are
\* never empty)
TokenizerFallbackEstimates ==
    (/\ last.op = "query" /\ last.outcome.ok
     /\ ~encoding_for_model(settings.openai_model).ok) =>
        last.response.body.tokens_used > 0

\* C15: a retraining that collected fewer samples than the threshold answers
\* "skipped" for insufficient data with the number collected, formats no
\* dataset and creates no job, and the caller gets it as a response that is
\* not an error
SkippedBelowThreshold ==
    (last.op = "retrain" /\ last.collected < last.request.feedback_threshold) =>
        /\ last.response.status_code = 200
        /\ last.response.body.details.status = "skipped"
        /\ last.response.body.details.reason = "insufficient_data"
        /\ last.response.body.details.samples_collected = last.collected
        /\ ~last.formatted
        /\ ~last.job

\* C15 witness: the script's retraining with the default threshold of 10,
\* skipped
RetrainSkippedAtDefaultThreshold ==
    /\ last.op = "retrain"
    /\ last.request.feedback_threshold = 10
    /\ last.collected < 10
    /\ last.response.body.details.status = "skipped"
    /\ flow.sent

\* C19: the script sends the retraining request only after a health check that
\* found the service healthy, exits with 1 without sending it otherwise, and
\* exits with 0 only when the retraining was carried out
RetrainFlowGuarded ==
    /\ flow.sent => flow.health = "healthy"
    /\ (flow.pc = "exited" /\ flow.health # "healthy") =>
          (flow.exit_code = 1 /\ ~flow.sent)
    /\ (flow.pc = "exited" /\ flow.exit_code = 0) =>
          (flow.sent /\ flow.result = "initiated")

\* C16: the model field of every query result is the configured model name of
\* the generation provider that produced the answer
ModelFieldNamesGenerationModel ==
    (last.op = "query" /\ last.outcome.ok) =>
        last.response.body.model = initialize_llm(settings).val.model

\* C18: a collection created by a DocumentIngestor has the dimensionality of
\* the vectors of the embedding provider the construction accepted
CreatedSizeMatchesProvider ==
    (\E i \in Replicas : ensured[i] = "created") =>
        collection.size = EmbeddingDim(Embeddings)

\* C20: a replica fails to construct only when a provider cannot be
\* initialised, whatever the store does; an ensure step that ends in an error leaves the
\* store as it was and goes on to the rest of the construction; of the
\* replicas racing to create the collection at most one creates it
StoreErrorsNeverFailConstruction ==
    /\ [](/\ \A i \in Replicas :
                app[i] = "failed" => ~(/\ initialize_embeddings(settings).ok
                                       /\ initialize_llm(settings).ok)
          /\ Cardinality({i \in Replicas : ensured[i] = "created"}) <= 1)
    /\ [][\A i \in Replicas :
             (ensured'[i] # ensured[i] /\ ensured'[i] \in {"error", "conflict"}) =>
                 /\ collection' = collection
                 /\ points' = points
                 /\ app'[i] = "engine"]_vars

\* C20 witness: two constructions that both found no collection; one created
\* it, the other's create was refused, and both replicas are up
RacingConstructionsBothComplete ==
    /\ ensured["r1"] = "created"
    /\ ensured["r2"] = "conflict"
    /\ app["r1"] = "up"
    /\ app["r2"] = "up"
    /\ collection.exists

\* C17: the chunks of a text have at most chunk_size characters each, every
\* chunk after the first begins where the last chunk_overlap characters of the
\* chunk before it begin, a text of 2400 characters gives 3 chunks, and
\* chunking the text again gives the same chunks
ChunksOverlapExactly ==
    last.op = "split" =>
        LET c == last.chunks IN
        /\ \A k \in 1..Len(c) : c[k].to - c[k].from <= chunk_size
        /\ \A k \in 2..Len(c) : c[k].from = c[k - 1].to - chunk_overlap
        /\ last.request.body = 2400 => Len(c) = 3
        /\ last.again = c

====
